---- MODULE Spec2Model ----
(***************************************************************************)
(* Model of the command-pattern text editor of src/behavioral/command.ts:  *)
(* the receiver TextEditor, the concrete command TypeCommand and the       *)
(* invoker CommandManager with its record `commands` and cursor `index`.   *)
(*                                                                         *)
(* A string is a sequence of one-character strings.  A command object is   *)
(* identified by a reference (a number of CommandRef); its fields are      *)
(* immutable, so they are operators over the reference.                    *)
(*                                                                         *)
(* The other stateful examples of the repository follow the same scheme,   *)
(* each with its own variables and its own specification: the singletons   *)
(* and the connection pool (src/structural/composite.ts,                   *)
(* src/creational/object-pool.ts), the flyweight factory                   *)
(* (src/structural/flyweight.ts) and the caching proxy                     *)
(* (src/unnamed/part_000).                                                 *)
(***************************************************************************)
EXTENDS Integers, Sequences, FiniteSets, TLC

\* Number of distinct command objects the client may construct.
NumCommands == 3

\* Longest record the model lets executeCommand build.
MaxLen == 3

\* References to the command objects built by the client (`new TypeCommand(..)`
\* or any other implementation of the interface Command).
CommandRef == 1 .. NumCommands

\* The private field `text` of a command, fixed by its constructor.
CommandText(c) ==
    CASE c % 3 = 1 -> <<"a", "b">>
      [] c % 3 = 2 -> <<"c">>
      [] OTHER     -> << >>

\* Whether the command's class is TypeCommand (whose execute and undo never
\* throw) or another implementation of Command whose execute() and undo() may
\* throw before touching the editor and otherwise act like TypeCommand's.
IsTypeCommand(c) == c % 2 = 1

TypeCommands == {c \in CommandRef : IsTypeCommand(c)}

VARIABLES
    text,       \* TextEditor.text
    commands,   \* CommandManager.commands (sequence of command references)
    index,      \* CommandManager.index (0-based cursor, -1 when nothing applied)
    discarded,  \* history: commands spliced away and not passed anew since
    orphaned,   \* history: discarded commands that kept no entry in the record
    last,       \* history: the last call, its outcome and the state before it
    prev,       \* history: the text and cursor before the call before the last
                \* one, when that call was an undo() that reverted a command
    run         \* history: whether the calls so far are k returned
                \* executeCommand calls followed by undo() calls, and how many

managerVars == <<text, commands, index, discarded, orphaned, last, prev, run>>

\* One TypeCommand executed and undone on an editor holding any text.
VARIABLES
    buffer,     \* TextEditor.text of that editor
    typed,      \* TypeCommand.text of that command
    initial,    \* history: the editor text before execute()
    step        \* "idle", "ready" (command built), "executed", "undone"

inverseVars == <<buffer, typed, initial, step>>

\* The singletons Logger and ConnectionPool, and the connection pool.
VARIABLES
    instance,        \* the static field `instance` of each singleton class:
                     \* {} while undefined, else {the object}
    built,           \* history: constructor calls of each singleton class
    got,             \* history: the objects the getInstance() calls of each
                     \* class returned, in call order
    pool,            \* ConnectionPool.pool: sequence of [id, isActive]
    maxConnections,  \* ConnectionPool.maxConnections
    released,        \* history: release() was called since the last acquire()
    poolLast,        \* history: the last call on the pool and the state before
    outstanding,     \* history: ids acquire() returned and no release() was
                     \* called on since
    held,            \* history: <<id, holder>> for every connection a holder
                     \* got from acquire() and has not released since; kept
                     \* while `disciplined` holds, {} afterwards
    disciplined      \* history: every release() so far was called by a
                     \* holder of the connection released

poolVars ==
    <<instance, built, got, pool, maxConnections, released, poolLast,
      outstanding, held, disciplined>>

\* The flyweight factory.
VARIABLES
    soldiers,       \* SoldierFactory.soldiers: set of [key, soldier] entries
    soldiersBuilt,  \* history: number of `new Soldier(..)` so far
    handed          \* history: [type, weapon, soldier] of every getSoldier call

flyweightVars == <<soldiers, soldiersBuilt, handed>>

\* The caching proxy.
VARIABLES
    imageCache,     \* ProxyImage.imageCache: set of [key, image] own entries
    displays        \* history: the display(filename) calls, in call order

proxyVars == <<imageCache, displays>>

\* The order-processing handler chain.
VARIABLES
    nextHandler,  \* the field `nextHandler` of each handler object: {} while
                  \* undefined, else {the handler}
    items,        \* Order.items of the order being handled: sequence of
                  \* [itemId, quantity]
    at,           \* the handler whose handle(order) is about to run, if any
    ran,          \* history: the handlers whose handle(order) has run for
                  \* this order, in call order
    settled       \* "none", or how the client's call ended: "returned",
                  \* "threw" (an OrderProcessingError reached the client)

chainVars == <<nextHandler, items, at, ran, settled>>

\* The variables other than the CommandManager's.
exceptManager == <<inverseVars, poolVars, flyweightVars, proxyVars, chainVars>>

\* The variables other than those of the execute/undo pair.
exceptInverse == <<managerVars, poolVars, flyweightVars, proxyVars, chainVars>>

\* The variables other than those of the singletons and the pool.
exceptPool == <<managerVars, inverseVars, flyweightVars, proxyVars, chainVars>>

\* The variables other than the flyweight factory's.
exceptFlyweight == <<managerVars, inverseVars, poolVars, proxyVars, chainVars>>

\* The variables other than the proxy's.
exceptProxy == <<managerVars, inverseVars, poolVars, flyweightVars, chainVars>>

\* The variables other than the handler chain's.
exceptChain == <<managerVars, inverseVars, poolVars, flyweightVars, proxyVars>>

vars == <<managerVars, inverseVars, poolVars, flyweightVars, proxyVars,
          chainVars>>

\* The elements of a sequence.
Range(s) == {s[k] : k \in 1 .. Len(s)}

At_Previous(cmds, i) == cmds[IF i >= 1 THEN i ELSE i + 1]

\* commands[i] for a 0-based position i.
At(cmds, i) == cmds[i + 1]

--------------------------------------------------------------------------
\* TextEditor

\* A type that inserts at the front.
type_Front(t, s) == s \o t

\* TextEditor.type: this.text += text
type(t, s) == t \o s

\* A delete that removes the first character instead of the last.
delete_First(t) == IF Len(t) = 0 THEN t ELSE SubSeq(t, 2, Len(t))

\* TextEditor.delete: this.text = this.text.slice(0, -1)
delete(t) == IF Len(t) = 0 THEN t ELSE SubSeq(t, 1, Len(t) - 1)

\* n successive calls of TextEditor.delete.
RECURSIVE deleteTimes(_, _)
deleteTimes(t, n) == IF n <= 0 THEN t ELSE deleteTimes(delete(t), n - 1)

--------------------------------------------------------------------------
\* TypeCommand

\* TypeCommand.execute: this.editor.type(this.text)
TypeCommand_execute(t, c) == type(t, CommandText(c))

\* An undo whose loop stops one character short.
TypeCommand_undo_Short(t, c) == deleteTimes(t, Len(CommandText(c)) - 1)

\* TypeCommand.undo: for (i = 0; i < this.text.length; i++) this.editor.delete()
TypeCommand_undo(t, c) == deleteTimes(t, Len(CommandText(c)))

--------------------------------------------------------------------------
\* CommandManager

\* A splice that also removes the entry at the cursor.
splice_OneTooMany(cmds, start) == SubSeq(cmds, 1, start - 1)

\* A splice that starts one position too late and keeps the first entry of
\* the redo tail.
splice_OneTooFew(cmds, start) ==
    IF start + 1 >= Len(cmds) THEN cmds ELSE SubSeq(cmds, 1, start + 1)

\* A splice that removes nothing.
splice_Nothing(cmds, start) == cmds

\* this.commands.splice(start): removes every entry from 0-based position
\* start to the end.
splice(cmds, start) == SubSeq(cmds, 1, start)

\* A push that inserts at the front.
push_Front(cmds, c) == <<c>> \o cmds

\* A push that evicts the oldest entry once the record holds two.
push_DropOldest(cmds, c) ==
    IF Len(cmds) >= 2 THEN SubSeq(cmds, 2, Len(cmds)) \o <<c>> ELSE Append(cmds, c)

\* this.commands.push(command)
push(cmds, c) == Append(cmds, c)

\* A guard of undo that also refuses the first entry.
canUndo_Positive(i) == i > 0

\* The guard of CommandManager.undo: this.index >= 0
canUndo(i) == i >= 0

\* A guard of redo that also refuses the last entry.
canRedo_OneShort(i, cmds) == i + 2 < Len(cmds)

\* The guard of CommandManager.redo: this.index + 1 < this.commands.length
canRedo(i, cmds) == i + 1 < Len(cmds)

\* The record of a call: which method, the commands passed to it (one for
\* executeCommand, none otherwise), how it ended ("returned": normal return
\* after invoking a command; "threw": the command's exception propagated to
\* the caller; "logged": the else branch, console.log and a normal return),
\* the commands whose execute() or undo() it invoked, and the state before
\* the call.
Call(op, passed, outcome, invoked) ==
    [op |-> op, passed |-> passed, outcome |-> outcome, invoked |-> invoked,
     text |-> text, commands |-> commands, index |-> index]

\* What `prev` keeps of the call that `last` describes.
Before(call) ==
    IF call.op = "undo" /\ call.outcome = "returned"
    THEN [undone |-> TRUE, text |-> call.text, index |-> call.index]
    ELSE [undone |-> FALSE, text |-> << >>, index |-> -1]

NoCall ==
    [op |-> "new", passed |-> {}, outcome |-> "returned",
     invoked |-> {}, text |-> << >>, commands |-> << >>, index |-> -1]

\* Commands in the redo tail (0-based positions index+1 .. end).
RedoTail(cmds, i) == {cmds[k] : k \in (i + 2) .. Len(cmds)}

\* Commands at the applied positions 0 .. index.
Applied(cmds, i) == {cmds[k] : k \in 1 .. (i + 1)}

\* `run` once the calls are no longer k executeCommand calls followed by at
\* most k + 1 undo() calls.
NotStraight == [straight |-> FALSE, executes |-> 0, undos |-> 0]

\* `run` after one more returned executeCommand.
RunExecute(r) ==
    IF r.straight /\ r.undos = 0
    THEN [r EXCEPT !.executes = r.executes + 1]
    ELSE NotStraight

\* `run` after one more undo() that returned normally.
RunUndo(r) ==
    IF r.straight /\ r.undos <= r.executes
    THEN [r EXCEPT !.undos = r.undos + 1]
    ELSE NotStraight

\* `run` after any other call.
RunOther(r) == NotStraight

InitManager ==
    /\ text = << >>
    /\ commands = << >>
    /\ index = -1
    /\ discarded = {}
    /\ orphaned = {}
    /\ last = NoCall
    /\ prev = Before(NoCall)
    /\ run = [straight |-> TRUE, executes |-> 0, undos |-> 0]

\* executeCommand(command) when command.execute() returns.
executeCommand(c) ==
    /\ index + 1 < MaxLen
    /\ text' = TypeCommand_execute(text, c)
    /\ commands' = push(splice(commands, index + 1), c)
    /\ index' = index + 1
    /\ discarded' = (discarded \cup RedoTail(commands, index)) \ {c}
    /\ orphaned' = (orphaned \cup (RedoTail(commands, index) \ Applied(commands, index))) \ {c}
    /\ last' = Call("executeCommand", {c}, "returned", {c})
    /\ prev' = Before(last)
    /\ run' = RunExecute(run)
    /\ UNCHANGED exceptManager

\* An executeCommand that truncates the record before calling
\* command.execute(), which throws.
executeCommandThrows_SpliceFirst(c) ==
    /\ ~IsTypeCommand(c)
    /\ commands' = splice(commands, index + 1)
    /\ UNCHANGED <<text, index, discarded, orphaned>>
    /\ last' = Call("executeCommand", {c}, "threw", {c})
    /\ prev' = Before(last)
    /\ run' = RunOther(run)
    /\ UNCHANGED exceptManager

\* executeCommand(command) when command.execute() throws: line 72 is the first
\* statement, so nothing after it runs.
executeCommandThrows(c) ==
    /\ ~IsTypeCommand(c)
    /\ UNCHANGED <<text, commands, index, discarded, orphaned>>
    /\ last' = Call("executeCommand", {c}, "threw", {c})
    /\ prev' = Before(last)
    /\ run' = RunOther(run)
    /\ UNCHANGED exceptManager

\* An undo that also removes the reverted entry from the record.
undo_Pops ==
    /\ canUndo(index)
    /\ text' = TypeCommand_undo(text, At(commands, index))
    /\ index' = index - 1
    /\ commands' = SubSeq(commands, 1, index)
    /\ UNCHANGED <<discarded, orphaned>>
    /\ last' = Call("undo", {}, "returned", {At(commands, index)})
    /\ prev' = Before(last)
    /\ run' = RunUndo(run)
    /\ UNCHANGED exceptManager

\* undo() when the guard holds and command.undo() returns.
undo ==
    /\ canUndo(index)
    /\ text' = TypeCommand_undo(text, At(commands, index))
    /\ index' = index - 1
    /\ UNCHANGED <<commands, discarded, orphaned>>
    /\ last' = Call("undo", {}, "returned", {At(commands, index)})
    /\ prev' = Before(last)
    /\ run' = RunUndo(run)
    /\ UNCHANGED exceptManager

\* An undo that moves the cursor before calling command.undo(), which throws.
undoThrows_DecrementFirst ==
    /\ canUndo(index)
    /\ ~IsTypeCommand(At(commands, index))
    /\ index' = index - 1
    /\ UNCHANGED <<text, commands, discarded, orphaned>>
    /\ last' = Call("undo", {}, "threw", {At(commands, index)})
    /\ prev' = Before(last)
    /\ run' = RunOther(run)
    /\ UNCHANGED exceptManager

\* undo() when the guard holds and command.undo() throws: index-- is not
\* reached.
undoThrows ==
    /\ canUndo(index)
    /\ ~IsTypeCommand(At(commands, index))
    /\ UNCHANGED <<text, commands, index, discarded, orphaned>>
    /\ last' = Call("undo", {}, "threw", {At(commands, index)})
    /\ prev' = Before(last)
    /\ run' = RunOther(run)
    /\ UNCHANGED exceptManager

\* undo() when the guard fails: console.log("No command to undo.")
undoNone ==
    /\ ~canUndo(index)
    /\ UNCHANGED <<text, commands, index, discarded, orphaned>>
    /\ last' = Call("undo", {}, "logged", {})
    /\ prev' = Before(last)
    /\ run' = RunUndo(run)
    /\ UNCHANGED exceptManager

\* redo() when the guard holds and command.execute() returns.
redo ==
    /\ canRedo(index, commands)
    /\ index' = index + 1
    /\ text' = TypeCommand_execute(text, At(commands, index'))
    /\ UNCHANGED <<commands, discarded, orphaned>>
    /\ last' = Call("redo", {}, "returned", {At(commands, index')})
    /\ prev' = Before(last)
    /\ run' = RunOther(run)
    /\ UNCHANGED exceptManager

\* redo() when the guard holds and command.execute() throws: this.index++ has
\* already run (line 90) and nothing restores it.
redoThrows ==
    /\ canRedo(index, commands)
    /\ index' = index + 1
    /\ ~IsTypeCommand(At(commands, index'))
    /\ UNCHANGED <<text, commands, discarded, orphaned>>
    /\ last' = Call("redo", {}, "threw", {At(commands, index')})
    /\ prev' = Before(last)
    /\ run' = RunOther(run)
    /\ UNCHANGED exceptManager

\* redo() when the guard fails: console.log("No command to redo.")
redoNone ==
    /\ ~canRedo(index, commands)
    /\ UNCHANGED <<text, commands, index, discarded, orphaned>>
    /\ last' = Call("redo", {}, "logged", {})
    /\ prev' = Before(last)
    /\ run' = RunOther(run)
    /\ UNCHANGED exceptManager

--------------------------------------------------------------------------
\* TypeCommand.execute followed by TypeCommand.undo on one editor

\* Longest editor text and longest command text of the execute/undo pair.
MaxText == 2

\* The characters of those texts.
Chars == {"a", "b"}

\* The strings of at most n characters.
Strings(n) == UNION {[1 .. k -> Chars] : k \in 0 .. n}

InitInverse ==
    /\ buffer = << >>
    /\ typed = << >>
    /\ initial = << >>
    /\ step = "idle"

\* command.execute(): this.editor.type(this.text)
inverseExecute ==
    /\ step = "ready"
    /\ buffer' = type(buffer, typed)
    /\ step' = "executed"
    /\ UNCHANGED <<typed, initial>>
    /\ UNCHANGED exceptInverse

\* command.undo(): this.text.length calls of this.editor.delete()
inverseUndo ==
    /\ step = "executed"
    /\ buffer' = deleteTimes(buffer, Len(typed))
    /\ step' = "undone"
    /\ UNCHANGED <<typed, initial>>
    /\ UNCHANGED exceptInverse

NextInverse == inverseExecute \/ inverseUndo

--------------------------------------------------------------------------
\* Logger (src/structural/composite.ts) and ConnectionPool
\* (src/creational/object-pool.ts)

\* Largest value the client passes to setMaxConnections.
MaxLimit == 3

\* Number of getInstance() calls the model follows per class.
MaxGets == 3

\* private maxConnections: number = 1
DefaultMaxConnections == 1

\* The classes with a private constructor and a static getInstance().
SingletonClasses == {"Logger", "ConnectionPool"}

\* A check that never finds the instance.
hasInstance_Never(inst) == FALSE

\* The negation of the check `!Logger.instance` / `!ConnectionPool.instance`.
hasInstance(inst) == inst # {}

\* Position (1-based) of a connection that is not the first inactive one: the
\* last inactive one.
firstInactive_Last(p) ==
    IF \A k \in 1 .. Len(p) : p[k].isActive THEN 0
    ELSE CHOOSE k \in 1 .. Len(p) :
            /\ ~p[k].isActive
            /\ \A j \in (k + 1) .. Len(p) : p[j].isActive

\* The loop of acquire: the position (1-based) of the first connection of the
\* pool with !connection.isActive, or 0 when the loop ends without one.
firstInactive(p) ==
    IF \A k \in 1 .. Len(p) : p[k].isActive THEN 0
    ELSE CHOOSE k \in 1 .. Len(p) :
            /\ ~p[k].isActive
            /\ \A j \in 1 .. (k - 1) : p[j].isActive

\* A limit check that lets the pool grow one past the limit.
belowLimit_Inclusive(p, max) == Len(p) <= max

\* this.pool.length < this.maxConnections
belowLimit(p, max) == Len(p) < max

\* The clients that hold connections.
Holders == {"first", "second"}

activate_Nothing(p, k) == p

\* connection.activate() on the connection at position k.
activate(p, k) == [p EXCEPT ![k].isActive = TRUE]

\* connection.close() on the connection at position k.
close(p, k) == [p EXCEPT ![k].isActive = FALSE]

\* new Connection(id): isActive = false
Connection(id) == [id |-> id, isActive |-> FALSE]

\* The record of a call on the pool: the method, its argument (a limit or a
\* connection id), the ids of the connections it returned (none for null),
\* and the state before the call.
PoolCall(op, arg, result) ==
    [op |-> op, arg |-> arg, result |-> result,
     pool |-> pool, maxConnections |-> maxConnections, released |-> released,
     outstanding |-> outstanding]

InitPool ==
    /\ instance = [cls \in SingletonClasses |-> {}]
    /\ built = [cls \in SingletonClasses |-> 0]
    /\ got = [cls \in SingletonClasses |-> << >>]
    /\ pool = << >>
    /\ maxConnections = DefaultMaxConnections
    /\ released = FALSE
    /\ poolLast = [op |-> "new", arg |-> {}, result |-> {},
                   pool |-> << >>, maxConnections |-> DefaultMaxConnections,
                   released |-> FALSE, outstanding |-> {}]
    /\ outstanding = {}
    /\ held = {}
    /\ disciplined = TRUE

\* Logger.getInstance() / ConnectionPool.getInstance()
getInstance(cls) ==
    /\ Len(got[cls]) < MaxGets
    /\ IF hasInstance(instance[cls])
       THEN UNCHANGED <<instance, built>>
       ELSE /\ instance' = [instance EXCEPT ![cls] = {built[cls] + 1}]
            /\ built' = [built EXCEPT ![cls] = built[cls] + 1]
    /\ got' = [got EXCEPT ![cls] =
                  Append(got[cls], CHOOSE o \in instance'[cls] : TRUE)]
    /\ UNCHANGED <<pool, maxConnections, released, poolLast>>
    /\ UNCHANGED <<outstanding, held, disciplined>>
    /\ UNCHANGED exceptPool

\* pool.setMaxConnections(n) on the instance the client got.
setMaxConnections(n) ==
    /\ hasInstance(instance["ConnectionPool"])
    /\ maxConnections' = n
    /\ poolLast' = PoolCall("setMaxConnections", {n}, {})
    /\ UNCHANGED <<instance, built, got, pool, released>>
    /\ UNCHANGED <<outstanding, held, disciplined>>
    /\ UNCHANGED exceptPool

\* pool.acquire(), called by one of the holders, which keeps what it returns.
acquire ==
    /\ hasInstance(instance["ConnectionPool"])
    /\ IF firstInactive(pool) # 0
       THEN /\ pool' = activate(pool, firstInactive(pool))
            /\ poolLast' = PoolCall("acquire", {}, {pool[firstInactive(pool)].id})
       ELSE IF belowLimit(pool, maxConnections)
       THEN /\ pool' = activate(Append(pool, Connection(Len(pool) + 1)),
                                Len(pool) + 1)
            /\ poolLast' = PoolCall("acquire", {}, {Len(pool) + 1})
       ELSE /\ pool' = pool
            /\ poolLast' = PoolCall("acquire", {}, {})
    /\ released' = FALSE
    /\ outstanding' = outstanding \cup poolLast'.result
    /\ \E h \in Holders :
          held' = IF disciplined
                  THEN held \cup {<<id, h>> : id \in poolLast'.result}
                  ELSE {}
    /\ UNCHANGED disciplined
    /\ UNCHANGED <<instance, built, got, maxConnections>>
    /\ UNCHANGED exceptPool

\* pool.release(connection) with the pooled connection at position k, called
\* by one of the holders: connection.close()
release(k) ==
    /\ hasInstance(instance["ConnectionPool"])
    /\ k \in 1 .. Len(pool)
    /\ pool' = close(pool, k)
    /\ released' = TRUE
    /\ poolLast' = PoolCall("release", {pool[k].id}, {})
    /\ outstanding' = outstanding \ {pool[k].id}
    /\ \E h \in Holders :
          /\ disciplined' = (disciplined /\ <<pool[k].id, h>> \in held)
          /\ held' = IF disciplined' THEN held \ {<<pool[k].id, h>>} ELSE {}
    /\ UNCHANGED <<instance, built, got, maxConnections>>
    /\ UNCHANGED exceptPool

NextPool ==
    \/ \E cls \in SingletonClasses : getInstance(cls)
    \/ \E n \in 0 .. MaxLimit : setMaxConnections(n)
    \/ acquire
    \/ \E k \in 1 .. MaxLimit : release(k)

--------------------------------------------------------------------------
\* SoldierFactory (src/structural/flyweight.ts)

\* Values the client passes as `type`.
SoldierTypes == {<<"a">>, <<"a", "-", "b">>, <<"b">>}

\* Values the client passes as `weapon`.
Weapons == {<<"c">>, <<"b", "-", "c">>}

\* const key = `${type}-${weapon}`
soldierKey(type_, weapon) == type_ \o <<"-">> \o weapon

\* this.soldiers[key]: the soldiers stored under the key (none or one).  No
\* property of Object.prototype has a "-" in its name, so only own entries
\* answer.
soldierAt(entries, key) == {en.soldier : en \in {x \in entries : x.key = key}}

InitFlyweight ==
    /\ soldiers = {}
    /\ soldiersBuilt = 0
    /\ handed = {}

\* factory.getSoldier(type, weapon)
getSoldier(type_, weapon) ==
    LET key == soldierKey(type_, weapon)
        made == [id |-> soldiersBuilt + 1, type |-> type_, weapon |-> weapon]
    IN  /\ IF soldierAt(soldiers, key) = {}
           THEN /\ soldiers' = soldiers \cup {[key |-> key, soldier |-> made]}
                /\ soldiersBuilt' = soldiersBuilt + 1
           ELSE UNCHANGED <<soldiers, soldiersBuilt>>
        /\ handed' = handed \cup
              {[type |-> type_, weapon |-> weapon, soldier |-> so] :
                  so \in soldierAt(soldiers', key)}
        /\ UNCHANGED exceptFlyweight

NextFlyweight ==
    \E type_ \in SoldierTypes, weapon \in Weapons : getSoldier(type_, weapon)

--------------------------------------------------------------------------
\* ProxyImage and RealImage (src/unnamed/part_000)

\* Number of display calls the model follows.
MaxDisplays == 4

\* Values the client passes as `filename`.
Filenames == {"photo1.jpg", "photo2.jpg", "constructor"}

\* Names that every object literal inherits from Object.prototype; their
\* values are truthy and have no method `display`.
ObjectPrototypeKeys ==
    {"constructor", "toString", "valueOf", "hasOwnProperty", "__proto__"}

\* The own entries of the cache stored under a filename (none or one).
imageAt(cache, filename) == {en.image : en \in {x \in cache : x.key = filename}}

\* Truthiness of this.imageCache[filename] for the cache `{}` plus its own
\* entries: an own entry, or else a property inherited from Object.prototype.
isCached(cache, filename) ==
    imageAt(cache, filename) # {} \/ filename \in ObjectPrototypeKeys

\* new RealImage(filename)
RealImage(filename) == [filename |-> filename]

InitProxy ==
    /\ imageCache = {}
    /\ displays = << >>

\* proxyImage.display(filename).  Line 51 calls display() on what the cache
\* answers: a RealImage logs its own filename; an inherited value has no such
\* method and the call throws a TypeError.
display(filename) ==
    /\ Len(displays) < MaxDisplays
    /\ imageCache' =
          IF isCached(imageCache, filename) THEN imageCache
          ELSE imageCache \cup {[key |-> filename, image |-> RealImage(filename)]}
    /\ displays' = Append(displays,
          [filename |-> filename,
           loaded |-> ~isCached(imageCache, filename),
           shown |-> {im.filename : im \in imageAt(imageCache', filename)},
           threw |-> imageAt(imageCache', filename) = {}])
    /\ UNCHANGED exceptProxy

NextProxy == \E filename \in Filenames : display(filename)

--------------------------------------------------------------------------
\* Order-processing handler chain (src/unnamed/part_002)

\* Item ids the client uses: those in the inventory and one beyond it.
MaxItemId == 3

\* Number of items in an order.
MaxItems == 2

Handlers ==
    {"OrderValidationHandler", "InventoryCheckHandler",
     "PaymentProcessingHandler", "OrderConfirmationHandler"}

\* `const inventory = { 1: 10, 2: 5 }`: stock by item id.
inventory == (1 :> 10) @@ (2 :> 5)

ItemIds == 1 .. MaxItemId

\* Requested quantities: none, one, and the values around each stock level.
Quantities ==
    {0, 1} \cup UNION {{inventory[id], inventory[id] + 1} : id \in DOMAIN inventory}

Items == [itemId : ItemIds, quantity : Quantities]

\* The orders a client can build: up to MaxItems items.
Orders == UNION {[1 .. n -> Items] : n \in 0 .. MaxItems}

\* !inventory[item.itemId]: no entry for the id (undefined), or a stock of 0.
noStock(id) == id \notin DOMAIN inventory \/ inventory[id] = 0

tooFew_Inclusive(id, quantity) == inventory[id] <= quantity

\* inventory[item.itemId] < item.quantity
tooFew(id, quantity) == inventory[id] < quantity

\* The condition under which InventoryCheckHandler throws for one item.
insufficient(item) ==
    noStock(item.itemId) \/ tooFew(item.itemId, item.quantity)

setNext_ReturnsThis(self, handler) == self

\* What setNext(handler) called on `self` returns: the handler passed.
setNext(self, handler) == handler

\* The fields after self.setNext(handler).
withNext(fields, self, handler) == [fields EXCEPT ![self] = {handler}]

InitChain ==
    /\ nextHandler = [h \in Handlers |-> {}]
    /\ items = << >>
    /\ at = {}
    /\ ran = << >>
    /\ settled = "none"

\* The client's chained setNext calls: each call is made on what the call
\* before it returned.
wire ==
    /\ \A h \in Handlers : nextHandler[h] = {}
    /\ LET second == setNext("OrderValidationHandler", "InventoryCheckHandler")
           third == setNext(second, "PaymentProcessingHandler")
       IN  nextHandler' =
               withNext(withNext(withNext(nextHandler,
                   "OrderValidationHandler", "InventoryCheckHandler"),
                   second, "PaymentProcessingHandler"),
                   third, "OrderConfirmationHandler")
    /\ UNCHANGED <<items, at, ran, settled>>
    /\ UNCHANGED exceptChain

\* The client builds its order and calls orderValidationHandler.handle(order),
\* once, after the wiring.
handleOrder ==
    /\ nextHandler["OrderValidationHandler"] # {}
    /\ at = {}
    /\ ran = << >>
    /\ settled = "none"
    /\ \E order \in Orders : items' = order
    /\ at' = {"OrderValidationHandler"}
    /\ UNCHANGED <<nextHandler, ran, settled>>
    /\ UNCHANGED exceptChain

\* The end of a handle(order) that did not throw: the call on the next
\* handler when there is one, else the return to the client.
passOn(self) ==
    /\ at' = nextHandler[self]
    /\ settled' = IF nextHandler[self] = {} THEN "returned" ELSE "none"

\* A throw: nothing on the call stack catches it before the client.
throwError ==
    /\ at' = {}
    /\ settled' = "threw"

OrderValidationHandler_handle ==
    /\ at = {"OrderValidationHandler"}
    /\ ran' = Append(ran, "OrderValidationHandler")
    /\ IF Len(items) = 0 THEN throwError
       ELSE passOn("OrderValidationHandler")
    /\ UNCHANGED <<nextHandler, items>>
    /\ UNCHANGED exceptChain

InventoryCheckHandler_handle ==
    /\ at = {"InventoryCheckHandler"}
    /\ ran' = Append(ran, "InventoryCheckHandler")
    /\ IF \E k \in 1 .. Len(items) : insufficient(items[k]) THEN throwError
       ELSE passOn("InventoryCheckHandler")
    /\ UNCHANGED <<nextHandler, items>>
    /\ UNCHANGED exceptChain

\* `const paymentSuccess = true`: the payment branch that throws is dead code.
PaymentProcessingHandler_handle ==
    /\ at = {"PaymentProcessingHandler"}
    /\ ran' = Append(ran, "PaymentProcessingHandler")
    /\ passOn("PaymentProcessingHandler")
    /\ UNCHANGED <<nextHandler, items>>
    /\ UNCHANGED exceptChain

\* Logs the confirmation and returns; it calls no next handler.
OrderConfirmationHandler_handle ==
    /\ at = {"OrderConfirmationHandler"}
    /\ ran' = Append(ran, "OrderConfirmationHandler")
    /\ at' = {}
    /\ settled' = "returned"
    /\ UNCHANGED <<nextHandler, items>>
    /\ UNCHANGED exceptChain

NextChain ==
    \/ wire
    \/ handleOrder
    \/ OrderValidationHandler_handle
    \/ InventoryCheckHandler_handle
    \/ PaymentProcessingHandler_handle
    \/ OrderConfirmationHandler_handle

--------------------------------------------------------------------------
\* Specifications

\* Every component freshly constructed.
Init ==
    /\ InitManager
    /\ InitInverse
    /\ InitPool
    /\ InitFlyweight
    /\ InitProxy
    /\ InitChain

Next ==
    \/ \E c \in CommandRef : executeCommand(c)
    \/ \E c \in CommandRef : executeCommandThrows(c)
    \/ undo
    \/ undoThrows
    \/ undoNone
    \/ redo
    \/ redoThrows
    \/ redoNone

\* Any client, any command implementation.
Spec == Init /\ [][Next]_vars

NextOk ==
    \/ \E c \in CommandRef : executeCommand(c)
    \/ undo
    \/ undoNone
    \/ redo
    \/ redoNone

\* Clients whose every call so far ended without an exception.
SpecOk == Init /\ [][NextOk]_vars

NextType ==
    \/ \E c \in TypeCommands : executeCommand(c)
    \/ undo
    \/ undoNone
    \/ redo
    \/ redoNone

\* Clients that build TypeCommands only, as the client code of lines 100-106.
SpecType == Init /\ [][NextType]_vars

\* An editor holding any text s and a command `new TypeCommand(editor, t)`
\* with any text t; every other component freshly constructed.
InitInputs ==
    /\ InitManager
    /\ buffer \in Strings(MaxText)
    /\ typed \in Strings(MaxText)
    /\ initial = buffer
    /\ step = "ready"
    /\ InitPool
    /\ InitFlyweight
    /\ InitProxy
    /\ InitChain

\* A TypeCommand with any text, executed and then undone on an editor holding
\* any text.
SpecInverse == InitInputs /\ [][NextInverse]_vars

\* Clients of the two singletons and of the connection pool.
SpecPool == Init /\ [][NextPool]_vars

\* Clients of one SoldierFactory.
SpecFlyweight == Init /\ [][NextFlyweight]_vars

\* Clients of one ProxyImage.
SpecProxy == Init /\ [][NextProxy]_vars

\* A client that wires the chain and submits orders to it.
SpecChain == Init /\ [][NextChain]_vars

--------------------------------------------------------------------------
\* Properties of the CommandManager

\* The last call was an executeCommand whose command.execute() returned.
Executed == last.op = "executeCommand" /\ last.outcome = "returned"

\* The record before the last call had a redo tail.
HadRedoTail == last.index < Len(last.commands) - 1

\* C1: in every reachable state, also after calls in which a command's
\* execute or undo threw, -1 <= index <= commands.length - 1.
C1_IndexInRange == -1 <= index /\ index <= Len(commands) - 1

\* C1 witness: a redo whose command threw has left the cursor on the last of
\* at least two entries.
C1_Witness ==
    /\ last.op = "redo" /\ last.outcome = "threw"
    /\ Len(commands) >= 2 /\ index = Len(commands) - 1

\* C2: immediately after executeCommand(op) returns, index = length - 1 and
\* index >= 0: redo finds nothing to re-apply and undo is available.
C2_ExecuteLeavesNoRedo ==
    Executed =>
        /\ index = Len(commands) - 1
        /\ index >= 0
        /\ ~canRedo(index, commands)
        /\ canUndo(index)

\* C2 witness: an executeCommand has returned in a state that had two
\* redo-available entries.
C2_Witness == Executed /\ last.index + 2 < Len(last.commands)

\* C3: after a successful executeCommand(op) from record R and cursor i, the
\* record is R[0..i] followed by op and the cursor is i + 1.
C3_ExecuteTruncatesThenAppends ==
    Executed =>
        /\ \E c \in last.passed :
              commands = SubSeq(last.commands, 1, last.index + 1) \o <<c>>
        /\ index = last.index + 1

\* C3 witness: an executeCommand has returned from a cursor in the middle of
\* the record: a prefix was kept and a tail was discarded.
C3_Witness == Executed /\ last.index >= 0 /\ HadRedoTail

\* C4 as stated: undo and redo never invoke a command that an executeCommand
\* has discarded, unless it was passed to executeCommand anew since.
C4_DiscardedNeverInvoked ==
    last.op \in {"undo", "redo"} => last.invoked \cap discarded = {}

\* C4 amended: undo and redo never invoke a discarded command that kept no
\* entry at a retained position of the record, unless it was passed to
\* executeCommand anew since.
C4_OrphanedNeverInvoked ==
    last.op \in {"undo", "redo"} => last.invoked \cap orphaned = {}

\* C4 witness: after two commands were discarded for good, a redo has
\* re-applied a command.
C4_Witness ==
    /\ Cardinality(orphaned) >= 2
    /\ last.op = "redo" /\ last.outcome = "returned"

\* The concatenation of the texts of the first n commands of a record.
RECURSIVE AppliedText(_, _)
AppliedText(cmds, n) ==
    IF n <= 0 THEN << >>
    ELSE AppliedText(cmds, n - 1) \o CommandText(cmds[n])

\* C5: with TypeCommands only, the editor text is the concatenation, in record
\* order, of the texts of the commands at positions 0..index; the redo tail
\* is not reflected in it.
C5_Contiguity == text = AppliedText(commands, index + 1)

\* C5 witness: an applied command and a redo-available one, both with text.
C5_Witness ==
    /\ index >= 0 /\ index < Len(commands) - 1
    /\ CommandText(At(commands, index)) # << >>
    /\ CommandText(At(commands, index + 1)) # << >>

C7_ExecuteFailureAtomic ==
    (last.op = "executeCommand" /\ last.outcome = "threw") =>
        /\ commands = last.commands
        /\ index = last.index
        /\ text = last.text

\* C7 witness: an executeCommand has thrown in a state that had a redo tail.
C7_Witness ==
    last.op = "executeCommand" /\ last.outcome = "threw" /\ HadRedoTail

\* C8 as stated: when the command re-applied by redo() throws, index is back
\* at the value it had before the call.
C8_RedoFailureRollsBack ==
    (last.op = "redo" /\ last.outcome = "threw") => index = last.index

\* C9: when the command reverted by undo() throws, index and the record are as
\* before the call; the exception is the outcome the caller sees.
C9_UndoFailureAtomic ==
    (last.op = "undo" /\ last.outcome = "threw") =>
        /\ index = last.index
        /\ commands = last.commands

\* C9 witness: an undo has thrown with the cursor on the second entry.
C9_Witness == last.op = "undo" /\ last.outcome = "threw" /\ last.index = 1

\* C10 as stated: undo() ends with an error of the manager itself (no command
\* invoked) exactly when index = -1.
C10_UndoFailsWithError ==
    last.op = "undo" =>
        ((last.index = -1) <=> (last.outcome = "threw" /\ last.invoked = {}))

\* C10 amended: undo() takes its else branch (logs "No command to undo." and
\* returns normally) exactly when index = -1; it then invokes no command and
\* leaves index, record and text unchanged.
C10_UndoNothingLogged ==
    last.op = "undo" =>
        /\ (last.index = -1) <=> (last.outcome = "logged")
        /\ last.outcome = "logged" =>
              /\ last.invoked = {}
              /\ index = last.index
              /\ commands = last.commands
              /\ text = last.text

\* C10 witness: undo finds nothing to undo after every entry of a record of
\* two was undone.
C10_Witness ==
    last.op = "undo" /\ last.outcome = "logged" /\ Len(commands) >= 2

\* C11 as stated: redo() ends with an error of the manager itself (no command
\* invoked) exactly when index = length - 1.
C11_RedoFailsWithError ==
    last.op = "redo" =>
        ((last.index = Len(last.commands) - 1)
            <=> (last.outcome = "threw" /\ last.invoked = {}))

\* C11 amended: redo() takes its else branch (logs "No command to redo." and
\* returns normally) exactly when index = length - 1, the empty record
\* included; it then invokes no command and leaves index, record and text
\* unchanged.
C11_RedoNothingLogged ==
    last.op = "redo" =>
        /\ (last.index = Len(last.commands) - 1) <=> (last.outcome = "logged")
        /\ last.outcome = "logged" =>
              /\ last.invoked = {}
              /\ index = last.index
              /\ commands = last.commands
              /\ text = last.text

\* C11 witness: redo finds nothing to redo with the cursor on the last of two
\* entries.
C11_Witness ==
    last.op = "redo" /\ last.outcome = "logged" /\ last.index = 1

C13_UnboundedStraightRun ==
    run.straight =>
        /\ Len(commands) = run.executes
        /\ run.undos <= run.executes => index = run.executes - run.undos - 1
        /\ run.undos >= run.executes => text = << >>
        /\ (run.undos >= 1 /\ run.undos <= run.executes) =>
              /\ last.op = "undo" /\ last.outcome = "returned"
              /\ last.invoked = {At(commands, run.executes - run.undos)}
        /\ run.undos = run.executes + 1 =>
              last.op = "undo" /\ last.outcome = "logged"

\* C13 witness: three executeCommand calls, three undos and a fourth undo.
C13_Witness == run.straight /\ run.executes = 3 /\ run.undos = 4

\* C14: for every editor text s and command text t, execute() followed by
\* undo() of TypeCommand(editor, t) leaves the editor text exactly s.
C14_ExactInverse == step = "undone" => buffer = initial

\* C14 witness: a two-character command was executed and undone on an editor
\* that held two other characters.
C14_Witness ==
    /\ step = "undone"
    /\ initial = <<"a", "b">>
    /\ typed = <<"b", "a">>

--------------------------------------------------------------------------
\* Properties of the singletons and of the connection pool

\* C15: for Logger and for ConnectionPool, every getInstance() call returns
\* the same object, at most one instance is ever constructed, and it is
\* constructed by the first call (none before it).
C15_Singleton ==
    \A cls \in SingletonClasses :
        /\ \A i, j \in 1 .. Len(got[cls]) : got[cls][i] = got[cls][j]
        /\ built[cls] <= 1
        /\ (Len(got[cls]) >= 1) <=> (built[cls] = 1)
        /\ \A i \in 1 .. Len(got[cls]) : instance[cls] = {got[cls][i]}

\* C15 witness: getInstance() was called three times on each class.
C15_Witness == \A cls \in SingletonClasses : Len(got[cls]) = 3

\* The connections of a pool that are active.
Active(p) == {k \in 1 .. Len(p) : p[k].isActive}

\* C16 as stated: the pool never holds more connections than the current
\* maxConnections.
C16_PoolWithinLimit == Len(pool) <= maxConnections

\* C17: acquire() returns null exactly when every pooled connection is active
\* and the pool size has reached maxConnections; otherwise it returns one
\* connection, which is pooled and active on return.
C17_AcquireNullExactly ==
    poolLast.op = "acquire" =>
        /\ (poolLast.result = {}) <=>
              /\ Active(poolLast.pool) = 1 .. Len(poolLast.pool)
              /\ Len(poolLast.pool) >= poolLast.maxConnections
        /\ poolLast.result # {} =>
              \E k \in 1 .. Len(pool) :
                  /\ poolLast.result = {pool[k].id}
                  /\ pool[k].isActive

\* C17 witness: acquire() returned null from a pool of two active connections
\* at its limit of two.
C17_Witness ==
    /\ poolLast.op = "acquire" /\ poolLast.result = {}
    /\ Len(pool) = 2 /\ poolLast.maxConnections = 2

\* C18: acquire() constructs a connection only when no pooled connection is
\* inactive; when one is, in particular on the first acquire() after a
\* release(c), it returns the first inactive connection in creation order and
\* the pool does not grow.
C18_ReuseBeforeCreation ==
    /\ poolLast.op = "acquire" =>
          /\ Len(pool) > Len(poolLast.pool) =>
                Active(poolLast.pool) = 1 .. Len(poolLast.pool)
          /\ poolLast.released =>
                Active(poolLast.pool) # 1 .. Len(poolLast.pool)
          /\ Active(poolLast.pool) # 1 .. Len(poolLast.pool) =>
                /\ Len(pool) = Len(poolLast.pool)
                /\ \E k \in 1 .. Len(poolLast.pool) :
                      /\ poolLast.result = {poolLast.pool[k].id}
                      /\ ~poolLast.pool[k].isActive
                      /\ \A j \in 1 .. (k - 1) : poolLast.pool[j].isActive
    /\ \A k \in 1 .. Len(pool) : pool[k].id = k

\* C18 witness: the first acquire() after a release found two inactive
\* connections behind an active one and returned the second connection made.
C18_Witness ==
    /\ poolLast.op = "acquire" /\ poolLast.released
    /\ Len(poolLast.pool) = 3
    /\ Active(poolLast.pool) = {1}
    /\ poolLast.result = {2}

--------------------------------------------------------------------------
\* Properties of the flyweight factory and of the proxy

\* The (type, weapon) pairs requested so far.
Requested == {<<h.type, h.weapon>> : h \in handed}

\* C19 as stated: two getSoldier calls with the same (type, weapon) return
\* the same Soldier, and the number of Soldiers constructed equals the number
\* of distinct (type, weapon) pairs requested.
C19_FlyweightSharing ==
    /\ \A h1, h2 \in handed :
          (h1.type = h2.type /\ h1.weapon = h2.weapon) => h1.soldier = h2.soldier
    /\ soldiersBuilt = Cardinality(Requested)

\* C20 as stated: the RealImage of a filename is constructed at most once, by
\* the first display of that filename, and every display call displays the
\* image of exactly the filename requested.
C20_ProxyCache ==
    \A i \in 1 .. Len(displays) :
        /\ displays[i].loaded <=>
              (\A j \in 1 .. (i - 1) : displays[j].filename # displays[i].filename)
        /\ displays[i].shown = {displays[i].filename}

---------------------------------------------------------------------------
\* Properties of the handler chain

\* The wiring the client announces.
ChainOrder ==
    <<"OrderValidationHandler", "InventoryCheckHandler",
      "PaymentProcessingHandler", "OrderConfirmationHandler">>

\* The order has an item, and every item has an inventory entry whose stock
\* is at least the requested quantity.
Acceptable(order) ==
    /\ Len(order) >= 1
    /\ \A k \in 1 .. Len(order) :
          /\ order[k].itemId \in DOMAIN inventory
          /\ inventory[order[k].itemId] >= order[k].quantity

Confirmed == "OrderConfirmationHandler" \in Range(ran)

---------------------------------------------------------------------------
\* The walk of undo() and redo() over the record

\* C22: an undo() called with index >= 0 invokes exactly the command at the
\* index it found, and nothing else; when the call before it was an undo()
\* that reverted a command, that is the entry just before the one reverted
\* then (reverse order of application).  A redo() called with
\* index < length - 1 invokes exactly the command at index + 1, the entry
\* after the cursor (original order).  An undo() or redo() called outside
\* these conditions invokes nothing.
C22_ReverseOrderWalk ==
    /\ last.op = "undo" /\ last.index >= 0 =>
          /\ last.invoked = {last.commands[last.index + 1]}
          /\ prev.undone =>
                /\ last.index = prev.index - 1
                /\ last.invoked = {last.commands[prev.index]}
    /\ last.op = "undo" /\ last.index < 0 => last.invoked = {}
    /\ last.op = "redo" /\ last.index < Len(last.commands) - 1 =>
          last.invoked = {last.commands[last.index + 2]}
    /\ last.op = "redo" /\ last.index >= Len(last.commands) - 1 =>
          last.invoked = {}

\* Two undos in a row, over two different commands: the second reverted the
\* entry before the one the first reverted.
C22_Witness ==
    /\ last.op = "undo"
    /\ last.outcome = "returned"
    /\ prev.undone
    /\ last.commands[prev.index] # last.commands[prev.index + 1]
    /\ last.invoked = {last.commands[prev.index]}

\* C23: undo() and redo() leave the record as it was (same commands, same
\* order, same length), whatever their outcome; an undo() that reverted a
\* command moved index by exactly -1 and a redo() that re-applied one by
\* exactly +1; a record that differs from the one before the last call was
\* changed by executeCommand.
C23_UndoRedoFrame ==
    /\ last.op \in {"undo", "redo"} => commands = last.commands
    /\ last.op = "undo" /\ last.outcome = "returned" => index = last.index - 1
    /\ last.op = "redo" /\ last.outcome = "returned" => index = last.index + 1
    /\ commands # last.commands => last.op = "executeCommand"

\* An undo() reverted a command in the middle of a record of three entries,
\* which is still whole.
C23_Witness ==
    /\ last.op = "undo"
    /\ last.outcome = "returned"
    /\ Len(last.commands) = 3
    /\ last.index = 1
    /\ commands = last.commands
    /\ index = 0

---------------------------------------------------------------------------
\* Hand-out of pooled connections

\* The holders of a connection.
HoldersOf(id) == {h \in Holders : <<id, h>> \in held}

\* The ids of the connections of a pool that are active.
ActiveIds(p) == {p[k].id : k \in Active(p)}

\* C24: a connection acquire() returned was not active before the call (it
\* was pooled and inactive, or it was constructed, inactive, by the call) and
\* is active after it, and it was not among the connections returned earlier
\* on which no release() had been called since; and while every release() so
\* far was called by a holder of the connection released, no connection has
\* two holders.
C24_ExclusiveHandOut ==
    /\ poolLast.op = "acquire" =>
          /\ poolLast.result \cap ActiveIds(poolLast.pool) = {}
          /\ poolLast.result \subseteq ActiveIds(pool)
          /\ poolLast.result \cap poolLast.outstanding = {}
    /\ disciplined => \A k \in 1 .. Len(pool) : Cardinality(HoldersOf(pool[k].id)) <= 1

\* The second holder got connection 1 after the first holder, which still
\* holds connection 2, had released it.
C24_Witness ==
    /\ disciplined
    /\ poolLast.op = "acquire"
    /\ poolLast.result = {1}
    /\ Len(poolLast.pool) >= 2
    /\ held = {<<1, "second">>, <<2, "first">>}

====
